---- MODULE Spec2Model ----
(***************************************************************************)
(* The view-state orchestration of src/src/App.tsx: the intersection-based *)
(* section visibility tracker, the decorative Three.js scene lifecycle     *)
(* (setup, animate, resize, cleanup) and the "back to top" scroll handler, *)
(* driven by React's mount / render / passive-effect / unmount cycle and   *)
(* by browser events.                                                      *)
(*                                                                         *)
(* Units: rotation angles are in thousandths of a radian, lengths in px.   *)
(* The camera aspect is kept as the pair <<numerator, denominator>> of the *)
(* quotient the code computes.                                             *)
(***************************************************************************)
EXTENDS Integers, Sequences, FiniteSets, TLC

\* ---------------------------------------------------------------- bounds
MaxBatch == 1        \* entries delivered by one observer callback
MaxTicks == 3        \* frame callbacks fired after one scene setup
MaxObservers == 2    \* observation contexts created during one mount

\* ------------------------------------------------------ program constants
ScrollThreshold == 300   \* window.scrollY > 300
RotIncX == 2             \* rotation.x += 0.002
RotIncY == 3             \* rotation.y += 0.003
HeightNum == 4           \* window.innerHeight * 0.4  (= 4/10)
HeightDen == 10

\* The keys of sectionRefs / inView, in declaration order.
SectionOrder == <<"summary", "skills", "experience", "projects", "achievements", "education">>

Ids == {SectionOrder[i] : i \in 1..Len(SectionOrder)}

\* An element identifier that is not a key of inView.
UnknownId == "contact"

Targets == Ids \cup {UnknownId}

\* IntersectionObserverEntry, reduced to the two fields the callback reads.
Entries == [id : Targets, isIntersecting : BOOLEAN]

Batches == UNION {[1..n -> Entries] : n \in 1..MaxBatch}

\* Window sizes and scroll positions the browser may report.
Viewports == {<<800, 500>>, <<1200, 1000>>, <<1200, 500>>}

InitialViewport == <<1200, 1000>>

ScrollPositions == {0, 299, 300, 301}

ReleaseSteps == {"cancel", "detach", "renderer", "geometry", "material"}

\* The regions whose ref.current is set when the observer effect runs: all six,
\* or all but one.
AttachChoices == {Ids, Ids \ {"projects"}}

VARIABLES
    mounted,            \* the App component is mounted
    headerAvail,        \* headerRef.current is set when the scene effect runs
    attached,           \* regions whose sectionRefs[...].current is set
    inView,             \* useState: section id -> flag
    inViewDirty,        \* inView has a new identity since the last render
    showBackToTop,      \* useState
    isMobileMenuOpen,   \* useState
    backToTopShown,     \* the button is in the committed DOM
    renderPending,      \* a state update has scheduled a re-render
    effects,            \* passive effects waiting to run: "none", "mount", "update"
    liveObs,            \* IntersectionObservers created and not disconnected
    observed,           \* regions observed by the live observer
    obsCreated,         \* observers created since mount (counted up to MaxObservers)
    notifyPending,      \* the live observer owes its first notification
    sceneActive,        \* scene set up and not yet cleaned up
    rotation,           \* <<dodecahedron.rotation.x, .y>>
    size,               \* renderer size <<width, height>>
    aspect,             \* camera.aspect as <<numerator, denominator>>
    canvasAttached,     \* renderer.domElement children in the header
    resizeListeners,    \* 'resize' listeners on window
    scrollListeners,    \* 'scroll' listeners on window
    gpuLive,            \* GPU-backed resources created and not disposed
    released,           \* release steps the scene cleanup of this mount performed
    pendingFrames,      \* ids of requested, not yet fired or cancelled frames
    animationFrameId,   \* animationFrameId.current (0 is null)
    ticks,              \* frame callbacks fired since the scene was set up
    draws,              \* renderer.render calls since the scene was set up
    drawn,              \* what the last renderer.render call drew
    viewport,           \* <<window.innerWidth, window.innerHeight>>
    resizePending,      \* a 'resize' event is queued
    scrollY,            \* window.scrollY
    visibleNow,         \* regions intersecting the viewport while the page is at rest
    lastEvent           \* history: the step taken last

trackerVars == <<inView, inViewDirty, liveObs, observed, obsCreated, notifyPending>>

sceneVars == <<sceneActive, rotation, size, aspect, canvasAttached, resizeListeners,
               gpuLive, released, pendingFrames, animationFrameId,
               ticks, draws, drawn>>

uiVars == <<showBackToTop, isMobileMenuOpen, backToTopShown, scrollListeners>>

reactVars == <<mounted, headerAvail, attached, renderPending, effects>>

envVars == <<viewport, resizePending, scrollY, visibleNow>>

vars == <<trackerVars, sceneVars, uiVars, reactVars, envVars, lastEvent>>

\* ------------------------------------------------------- pure helpers

\* useState initial value of inView.
InitialInView == [s \in Ids |-> FALSE]

\* Variant of SetKey: the spread of prev is left out, the other flags are lost.
SetKeyNoSpread(prev, k, b) == [x \in (DOMAIN prev) \cup {k} |-> IF x = k THEN b ELSE FALSE]

\* {...prev, [k]: b}
SetKey(prev, k, b) == [x \in (DOMAIN prev) \cup {k} |-> IF x = k THEN b ELSE prev[x]]

\* Variant of IsKnownKey: the validity check is left out.
IsKnownKeyAlways(v, id) == TRUE

\* Object.keys(inView).includes(sectionId)
IsKnownKey(v, id) == id \in DOMAIN v

\* Variant of ApplyEntry: the update is queued without the validity check.
ApplyEntryUnguarded(prev, e) == SetKey(prev, e.id, e.isIntersecting)

\* One pass of the forEach body of observerCallback on the queued state.
ApplyEntry(prev, e) ==
    IF IsKnownKey(prev, e.id) THEN SetKey(prev, e.id, e.isIntersecting) ELSE prev

\* Variant of ApplyBatch: every updater spreads the snapshot the callback saw,
\* so only the last known entry of the batch takes effect.
ApplyBatchStale(prev, es) ==
    LET known == {i \in 1..Len(es) : IsKnownKey(prev, es[i].id)}
    IN IF known = {} THEN prev
       ELSE ApplyEntry(prev, es[CHOOSE i \in known : \A j \in known : j <= i])

\* The updaters of one callback, applied by React in the order they were queued.
RECURSIVE ApplyBatch(_, _)
ApplyBatch(prev, es) ==
    IF es = <<>> THEN prev ELSE ApplyBatch(ApplyEntry(prev, Head(es)), Tail(es))

\* Whether the callback issues at least one setInView for the batch.
IssuesUpdate(v, es) == \E i \in 1..Len(es) : IsKnownKey(v, es[i].id)

\* window.innerHeight * 0.4
SurfaceHeight(h) == (h * HeightNum) \div HeightDen

\* renderer.setSize(window.innerWidth, window.innerHeight * 0.4)
SurfaceSize(vp) == <<vp[1], SurfaceHeight(vp[2])>>

\* window.innerWidth / (window.innerHeight * 0.4)
CameraAspect(vp) == <<vp[1], SurfaceHeight(vp[2])>>

\* Variant of RotStep: both axes advance by the x increment.
RotStepSameRate(rot) == <<rot[1] + RotIncX, rot[2] + RotIncX>>

\* rotation.x += 0.002; rotation.y += 0.003
RotStep(rot) == <<rot[1] + RotIncX, rot[2] + RotIncY>>

\* Variant of PastThreshold: the boundary itself counts as past it.
PastThresholdInclusive(y) == y >= ScrollThreshold

\* window.scrollY > 300
PastThreshold(y) == y > ScrollThreshold

\* Variant of RequestFrame: the request is lost, nothing is scheduled.
RequestFrameLost(pending, id) == pending

\* requestAnimationFrame(animate): the callback becomes pending under a fresh id.
RequestFrame(pending, id) == pending \cup {id}

\* The handle requestAnimationFrame returns: a positive number that names no
\* other pending callback and differs from the handle last stored.
FreshFrameId(pending, last) ==
    CHOOSE n \in 1..(Cardinality(pending) + 2) :
        /\ n \notin pending \cup {last}
        /\ \A m \in 1..(n - 1) : m \in pending \cup {last}

\* Variant of StoreHandle: only the handle of the first request is kept.
StoreHandleFirstOnly(old, new) == IF old # 0 THEN old ELSE new

\* animationFrameId.current = requestAnimationFrame(animate)
StoreHandle(old, new) == new

\* Variant of CancelFrame: the cleanup does not cancel the requested frame.
CancelFrameNone(pending, id) == pending

\* if (animationFrameId.current) cancelAnimationFrame(animationFrameId.current)
CancelFrame(pending, id) == IF id # 0 THEN pending \ {id} ELSE pending

\* window.removeEventListener(type, handler)
RemoveListener(n) == IF n > 0 THEN n - 1 ELSE 0

\* if (currentHeaderRef && renderer.domElement) currentHeaderRef.removeChild(...)
DetachCanvas(n) == IF n > 0 THEN n - 1 ELSE 0

\* Variant of Disconnect: the cleanup leaves the observer connected.
DisconnectLeak(n) == n

\* observer.disconnect()
Disconnect(n) == IF n > 0 THEN n - 1 ELSE 0

\* Variant of ObserveAll: observe(ref.current) without the check, so the loop is
\* aborted by the first region whose ref is not set.
ObserveUntilMissing(att) ==
    {SectionOrder[i] : i \in {j \in 1..Len(SectionOrder) :
                                 \A k \in 1..j : SectionOrder[k] \in att}}

\* Object.values(sectionRefs).forEach(ref => { if (ref.current) observer.observe(ref.current) })
ObserveAll(att) == {s \in Ids : s \in att}

\* sectionRefs is an object literal built by every execution of App, so the
\* dependency [observerCallback, sectionRefs] differs from the previous one
\* after every render.
SectionRefsChanged == TRUE

\* useCallback(..., [inView]) returns a new function when inView is a new object.
CallbackChanged == inViewDirty

\* The observer effect re-runs when one of its dependencies changed.
ObserverDepsChanged == CallbackChanged \/ SectionRefsChanged

\* What renderer.render(scene, camera) puts on the surface.
Frame(rot, sz, asp) == [rot |-> rot, size |-> sz, aspect |-> asp]

NoFrame == Frame(<<0, 0>>, <<0, 0>>, <<0, 1>>)

\* Variant of Redraw: the frame is rendered before the angles are advanced.
RedrawBeforeIncrements(rot, sz, asp) == Frame(rot, sz, asp)

\* The tail of animate: the two increments, then renderer.render(scene, camera).
Redraw(rot, sz, asp) == Frame(RotStep(rot), sz, asp)

\* ------------------------------------------------------------- Init

InitPage ==
    /\ mounted = FALSE
    /\ headerAvail = FALSE
    /\ attached = {}
    /\ inView = InitialInView
    /\ inViewDirty = FALSE
    /\ showBackToTop = FALSE
    /\ isMobileMenuOpen = FALSE
    /\ backToTopShown = FALSE
    /\ renderPending = FALSE
    /\ effects = "none"
    /\ liveObs = 0
    /\ observed = {}
    /\ obsCreated = 0
    /\ notifyPending = FALSE
    /\ sceneActive = FALSE
    /\ rotation = <<0, 0>>
    /\ size = <<0, 0>>
    /\ aspect = <<0, 1>>
    /\ canvasAttached = 0
    /\ resizeListeners = 0
    /\ scrollListeners = 0
    /\ gpuLive = {}
    /\ released = {}
    /\ pendingFrames = {}
    /\ animationFrameId = 0
    /\ ticks = 0
    /\ draws = 0
    /\ drawn = NoFrame
    /\ viewport = InitialViewport
    /\ resizePending = FALSE
    /\ scrollY = 0
    /\ lastEvent = "load"

\* The page before mount, no region in the viewport.
Init == InitPage /\ visibleNow = {}

\* The page before mount, at rest with any set of regions in the viewport.
InitAtRest == InitPage /\ visibleNow \in SUBSET Ids

\* ---------------------------------------------------------- React cycle

\* The first render of App and its commit: state hooks take their initial
\* values, the three passive effects are scheduled.
Mount(hdr, att) ==
    /\ ~mounted
    /\ lastEvent' = "mount"
    /\ mounted' = TRUE
    /\ headerAvail' = hdr
    /\ attached' = att
    /\ inView' = InitialInView
    /\ inViewDirty' = FALSE
    /\ showBackToTop' = FALSE
    /\ isMobileMenuOpen' = FALSE
    /\ backToTopShown' = FALSE
    /\ renderPending' = FALSE
    /\ effects' = "mount"
    /\ obsCreated' = 0
    /\ released' = {}
    /\ animationFrameId' = 0
    /\ UNCHANGED <<liveObs, observed, notifyPending, sceneActive, rotation, size, aspect, canvasAttached,
                   resizeListeners, scrollListeners, gpuLive, pendingFrames,
                   ticks, draws, drawn, envVars>>

\* The body of the observer effect: new IntersectionObserver, observe each region.
ObserverSetup(live) == live + 1

\* IntersectionObserver.observe(target): the browser reports the state of every
\* newly observed target once, at its next rendering opportunity.
OwesNotification(obs) == obs # {}

\* The observers created since mount, counted up to MaxObservers.
CountObserver(n) == IF n < MaxObservers THEN n + 1 ELSE n

\* The scene effect: construct camera, renderer, mesh; append the canvas; add the
\* resize listener; call animate() once (request a frame, rotate, render).
SceneSetup ==
    LET rot == RotStep(<<0, 0>>)
        sz == SurfaceSize(viewport)
        asp == CameraAspect(viewport)
        id == FreshFrameId(pendingFrames, animationFrameId)
    IN /\ sceneActive' = TRUE
       /\ size' = sz
       /\ aspect' = asp
       /\ canvasAttached' = canvasAttached + 1
       /\ gpuLive' = {"renderer", "geometry", "material"}
       /\ resizeListeners' = resizeListeners + 1
       /\ animationFrameId' = StoreHandle(0, id)
       /\ pendingFrames' = RequestFrame(pendingFrames, id)
       /\ rotation' = rot
       /\ ticks' = 0
       /\ draws' = 1
       /\ drawn' = Redraw(<<0, 0>>, sz, asp)
       /\ UNCHANGED released

\* if (!headerRef.current) return;
SceneSkipped == UNCHANGED sceneVars

\* The passive effects of the mount commit, in declaration order.
MountEffects ==
    /\ mounted
    /\ lastEvent' = "effects"
    /\ effects = "mount"
    /\ effects' = "none"
    /\ liveObs' = ObserverSetup(liveObs)
    /\ observed' = ObserveAll(attached)
    /\ notifyPending' = OwesNotification(ObserveAll(attached))
    /\ obsCreated' = CountObserver(obsCreated)
    /\ IF headerAvail THEN SceneSetup ELSE SceneSkipped
    /\ scrollListeners' = scrollListeners + 1
    /\ UNCHANGED <<inView, inViewDirty, showBackToTop, isMobileMenuOpen, backToTopShown,
                   mounted, headerAvail, attached, renderPending, envVars>>

\* A re-render of App and its commit. The scene and scroll effects have empty
\* dependency arrays and are not scheduled again.
Render ==
    /\ mounted
    /\ lastEvent' = "render"
    /\ renderPending
    /\ effects = "none"
    /\ renderPending' = FALSE
    /\ inViewDirty' = FALSE
    /\ backToTopShown' = showBackToTop
    /\ effects' = IF ObserverDepsChanged THEN "update" ELSE "none"
    /\ UNCHANGED <<inView, liveObs, observed, obsCreated, notifyPending, sceneVars, showBackToTop,
                   isMobileMenuOpen, scrollListeners, mounted, headerAvail, attached,
                   envVars>>

\* Variant of SceneDepsChanged: the scene effect is scheduled by every render.
SceneDepsChangedEveryRender == TRUE

\* The dependency array of the scene effect is empty: never changed by a render.
SceneDepsChanged == FALSE

\* The observer effect re-running: the previous cleanup (unobserve each region,
\* disconnect), then the effect body again. The scene effect body runs again
\* only if its dependencies changed.
UpdateEffects ==
    /\ mounted
    /\ lastEvent' = "update"
    /\ effects = "update"
    /\ effects' = "none"
    /\ liveObs' = ObserverSetup(Disconnect(liveObs))
    /\ observed' = ObserveAll(attached)
    /\ notifyPending' = OwesNotification(ObserveAll(attached))
    /\ obsCreated' = CountObserver(obsCreated)
    /\ IF SceneDepsChanged /\ headerAvail THEN SceneSetup ELSE UNCHANGED sceneVars
    /\ UNCHANGED <<inView, inViewDirty, uiVars, mounted, headerAvail,
                   attached, renderPending, envVars>>

\* Variant of SceneCleanup: geometry and material are not disposed.
SceneCleanupNoDispose ==
    /\ resizeListeners' = RemoveListener(resizeListeners)
    /\ pendingFrames' = CancelFrame(pendingFrames, animationFrameId)
    /\ canvasAttached' = DetachCanvas(canvasAttached)
    /\ gpuLive' = gpuLive \ {"renderer"}
    /\ released' = {"detach", "renderer"}
                      \cup (IF animationFrameId # 0 THEN {"cancel"} ELSE {})
    /\ sceneActive' = FALSE
    /\ UNCHANGED <<rotation, size, aspect, ticks, draws, drawn>>

\* The cleanup returned by the scene effect.
SceneCleanup ==
    /\ resizeListeners' = RemoveListener(resizeListeners)
    /\ pendingFrames' = CancelFrame(pendingFrames, animationFrameId)
    /\ canvasAttached' = DetachCanvas(canvasAttached)
    /\ gpuLive' = {}
    /\ released' = {"detach", "renderer", "geometry", "material"}
                      \cup (IF animationFrameId # 0 THEN {"cancel"} ELSE {})
    /\ sceneActive' = FALSE
    /\ UNCHANGED <<rotation, size, aspect, ticks, draws, drawn>>

\* Unmount of App: every registered effect cleanup runs and the component's
\* state and refs are discarded.
Unmount ==
    /\ mounted
    /\ lastEvent' = "unmount"
    /\ effects = "none"
    /\ mounted' = FALSE
    /\ liveObs' = Disconnect(liveObs)
    /\ observed' = {}
    /\ notifyPending' = FALSE
    /\ IF sceneActive
         THEN SceneCleanup
         ELSE UNCHANGED <<sceneActive, rotation, size, aspect, canvasAttached,
                          resizeListeners, gpuLive, released, pendingFrames,
                          ticks, draws, drawn>>
    /\ animationFrameId' = 0
    /\ scrollListeners' = RemoveListener(scrollListeners)
    /\ inView' = InitialInView
    /\ inViewDirty' = FALSE
    /\ showBackToTop' = FALSE
    /\ isMobileMenuOpen' = FALSE
    /\ backToTopShown' = FALSE
    /\ renderPending' = FALSE
    /\ attached' = {}
    /\ UNCHANGED <<obsCreated, headerAvail, effects, envVars>>

\* ------------------------------------------------------ event handlers

\* observerCallback(entries), invoked by a live IntersectionObserver. Each known
\* entry queues setInView(prev => ({...prev, [id]: isIntersecting})); an updater
\* always returns a new object, so React schedules a re-render.
ObserverCallback(es) ==
    /\ mounted
    /\ lastEvent' = (IF \E i \in 1..Len(es) : es[i].id \in Ids THEN "intersect" ELSE "unknown")
    /\ liveObs > 0
    /\ \A i \in 1..Len(es) : es[i].id \in Ids => es[i].id \in observed
    /\ inView' = ApplyBatch(inView, es)
    /\ inViewDirty' = (inViewDirty \/ IssuesUpdate(inView, es))
    /\ renderPending' = (renderPending \/ IssuesUpdate(inView, es))
    /\ UNCHANGED <<liveObs, observed, obsCreated, notifyPending, sceneVars, uiVars, mounted,
                   headerAvail, attached, effects, envVars>>

\* The entries of the first notification: one per observed region, in the order
\* the regions were observed, each with the region's current state.
InitialBatch(obs, vis) ==
    LET regions == SelectSeq(SectionOrder, LAMBDA r : r \in obs)
    IN [i \in 1..Len(regions) |->
            [id |-> regions[i], isIntersecting |-> regions[i] \in vis]]

\* observerCallback run by a newly created observer with its first notification.
InitialNotify ==
    /\ mounted
    /\ lastEvent' = "intersect"
    /\ liveObs > 0
    /\ notifyPending
    /\ notifyPending' = FALSE
    /\ LET es == InitialBatch(observed, visibleNow)
       IN /\ inView' = ApplyBatch(inView, es)
          /\ inViewDirty' = (inViewDirty \/ IssuesUpdate(inView, es))
          /\ renderPending' = (renderPending \/ IssuesUpdate(inView, es))
    /\ UNCHANGED <<liveObs, observed, obsCreated, sceneVars, uiVars, mounted, headerAvail,
                   attached, effects, envVars>>

\* handleScroll: the page is scrolled to y and the 'scroll' event is dispatched.
\* Setting a state hook to the value it already has schedules nothing.
Scroll(y) ==
    /\ scrollY' = y
    /\ lastEvent' = "scroll"
    /\ IF scrollListeners > 0
         THEN /\ showBackToTop' = PastThreshold(y)
              /\ renderPending' = (renderPending \/ showBackToTop # PastThreshold(y))
         ELSE UNCHANGED <<showBackToTop, renderPending>>
    /\ UNCHANGED <<trackerVars, sceneVars, isMobileMenuOpen, backToTopShown, scrollListeners,
                   mounted, headerAvail, attached, effects, viewport, resizePending,
                   visibleNow>>

\* onClick={() => setIsMobileMenuOpen(!isMobileMenuOpen)}
MenuToggle ==
    /\ mounted
    /\ lastEvent' = "menu"
    /\ isMobileMenuOpen' = ~isMobileMenuOpen
    /\ renderPending' = TRUE
    /\ UNCHANGED <<trackerVars, sceneVars, showBackToTop, backToTopShown, scrollListeners,
                   mounted, headerAvail, attached, effects, envVars>>

\* The browser window takes a new size and queues a 'resize' event.
ViewportChange(vp) ==
    /\ vp # viewport
    /\ lastEvent' = "viewport"
    /\ viewport' = vp
    /\ resizePending' = TRUE
    /\ UNCHANGED <<trackerVars, sceneVars, uiVars, reactVars, scrollY, visibleNow>>

\* Variant of OnWindowResize: the renderer is resized, the camera is not.
OnWindowResizeNoAspect ==
    /\ size' = SurfaceSize(viewport)
    /\ UNCHANGED aspect

\* Variant of OnWindowResize: the camera is updated, the renderer keeps its size.
OnWindowResizeNoSize ==
    /\ aspect' = CameraAspect(viewport)
    /\ UNCHANGED size

\* onWindowResize: camera.aspect and renderer size from the current window size.
OnWindowResize ==
    /\ aspect' = CameraAspect(viewport)
    /\ size' = SurfaceSize(viewport)

\* The queued 'resize' event is dispatched to the registered listeners.
ResizeEvent ==
    /\ resizePending
    /\ lastEvent' = "resize"
    /\ resizePending' = FALSE
    /\ IF resizeListeners > 0 THEN OnWindowResize ELSE UNCHANGED <<aspect, size>>
    /\ UNCHANGED <<trackerVars, sceneActive, rotation, canvasAttached, resizeListeners,
                   gpuLive, released, pendingFrames, animationFrameId, ticks,
                   draws, drawn, uiVars, reactVars, viewport, scrollY, visibleNow>>

\* animate, run by the browser for a pending frame id: request the next frame and
\* store its id, advance the rotation, render.
FrameTick(id) ==
    /\ id \in pendingFrames
    /\ lastEvent' = "frame"
    /\ ticks < MaxTicks
    /\ LET new == FreshFrameId(pendingFrames \ {id}, animationFrameId)
       IN /\ animationFrameId' = StoreHandle(animationFrameId, new)
          /\ pendingFrames' = RequestFrame(pendingFrames \ {id}, new)
    /\ rotation' = RotStep(rotation)
    /\ ticks' = ticks + 1
    /\ draws' = draws + 1
    /\ drawn' = Redraw(rotation, size, aspect)
    /\ UNCHANGED <<trackerVars, sceneActive, size, aspect, canvasAttached, resizeListeners,
                   gpuLive, released, uiVars, reactVars, envVars>>

\* ------------------------------------------------------- specification

\* Single intersection entries for one sample region and for an unknown element.
SampleBatches == {<<e>> : e \in {x \in Entries : x.id \in {"summary", UnknownId}}}

\* The visibility tracker alone: every intersection batch, the re-renders and
\* effect re-runs the batches cause, mount and unmount.
NextCallback ==
    \/ \E hdr \in BOOLEAN : Mount(hdr, Ids)
    \/ MountEffects
    \/ Render
    \/ UpdateEffects
    \/ Unmount
    \/ \E es \in Batches : ObserverCallback(es)

SpecCallback == Init /\ [][NextCallback]_vars

\* Entries for two regions and an unknown element.
SeveralEntries == {x \in Entries : x.id \in {"summary", "skills", UnknownId}}

\* Batches of several entries: every pair of them, and every triple of entries
\* for the two regions.
OrderedBatches ==
    [1..2 -> SeveralEntries] \cup [1..3 -> {x \in SeveralEntries : x.id \in Ids}]

\* The visibility tracker receiving batches of several entries.
NextBatch ==
    \/ \E hdr \in BOOLEAN : Mount(hdr, Ids)
    \/ MountEffects
    \/ Render
    \/ UpdateEffects
    \/ Unmount
    \/ \E es \in OrderedBatches : ObserverCallback(es)

SpecBatch == Init /\ [][NextBatch]_vars

\* The page with its visibility tracker and its controls: single intersection
\* entries for every observed region, scrolling, the menu, the re-renders they
\* cause, mount with or without the header and with or without one region, and
\* unmount (the scene is set up and cleaned up, its frames and resizes are left
\* out).
NextTracker ==
    \/ \E hdr \in BOOLEAN, att \in AttachChoices : Mount(hdr, att)
    \/ MountEffects
    \/ Render
    \/ UpdateEffects
    \/ Unmount
    \/ \E e \in Entries : ObserverCallback(<<e>>)
    \/ \E y \in ScrollPositions : Scroll(y)
    \/ MenuToggle

SpecTracker == Init /\ [][NextTracker]_vars

\* The page with its decorative scene: frames, window resizes, mount and unmount,
\* interleaved with scrolling, with intersection events of a sample region and
\* with the re-renders they cause.
NextScene ==
    \/ \E hdr \in BOOLEAN : Mount(hdr, Ids)
    \/ MountEffects
    \/ Render
    \/ UpdateEffects
    \/ Unmount
    \/ \E es \in SampleBatches : ObserverCallback(es)
    \/ \E y \in ScrollPositions : Scroll(y)
    \/ \E vp \in Viewports : ViewportChange(vp)
    \/ ResizeEvent
    \/ \E id \in pendingFrames : FrameTick(id)

SpecScene == Init /\ [][NextScene]_vars

\* The animation loop with a fair browser: frames, window resizes and intersection
\* events of a sample region with their re-renders, mount and unmount; a frame
\* callback that stays pending is run and a queued resize event is delivered.
NextLoop ==
    \/ \E hdr \in BOOLEAN : Mount(hdr, Ids)
    \/ MountEffects
    \/ Render
    \/ UpdateEffects
    \/ Unmount
    \/ \E es \in SampleBatches : ObserverCallback(es)
    \/ \E vp \in Viewports : ViewportChange(vp)
    \/ ResizeEvent
    \/ \E id \in pendingFrames : FrameTick(id)

SpecLoop ==
    /\ Init
    /\ [][NextLoop]_vars
    /\ WF_vars(\E id \in pendingFrames : FrameTick(id))
    /\ WF_vars(ResizeEvent)

\* Scroll positions on either side of the threshold.
SampleScrolls == {0, ScrollThreshold + 1}

\* Both mechanisms together: the animation loop and the window resizes next to
\* every kind of user event (intersection, scroll, menu toggle) and its re-render.
NextBoth ==
    \/ NextLoop
    \/ \E y \in SampleScrolls : Scroll(y)
    \/ MenuToggle

SpecBoth == Init /\ [][NextBoth]_vars

\* The mounted page left alone: the window, the scroll position, the menu and
\* the set of regions in the viewport do not change; React and the browser run
\* every step they have scheduled.
NextAtRest ==
    \/ \E hdr \in BOOLEAN, att \in AttachChoices : Mount(hdr, att)
    \/ MountEffects
    \/ InitialNotify
    \/ Render
    \/ UpdateEffects

SpecAtRest == InitAtRest /\ [][NextAtRest]_vars /\ WF_vars(NextAtRest)

TypeOK ==
    /\ mounted \in BOOLEAN
    /\ effects \in {"none", "mount", "update"}
    /\ liveObs \in 0..1
    /\ observed \subseteq Ids
    /\ released \subseteq ReleaseSteps

\* ------------------------------------------------------------ claims

\* C1: an intersection event for a known section s sets the flag of s to the
\* reported state (true when visible, false when it left the viewport) and
\* leaves the flags of the other five sections as they were.
C1_FlagFollowsEvent ==
    [][\A e \in Entries :
          (lastEvent' = "intersect" /\ e.id \in Ids /\ ObserverCallback(<<e>>)) =>
              /\ DOMAIN inView' = Ids
              /\ inView'[e.id] = e.isIntersecting
              /\ \A t \in Ids \ {e.id} : inView'[t] = inView[t]]_vars

\* A known event has been processed: one flag is up while another is still down.
C1_Witness ==
    /\ lastEvent = "intersect"
    /\ inView["education"] = TRUE
    /\ inView["summary"] = FALSE

\* C2: an intersection event whose target is none of the six known identifiers
\* changes no flag and issues no state update (no re-render is scheduled).
C2_UnknownIgnored ==
    [][\A b \in BOOLEAN :
          (/\ lastEvent' = "unknown"
           /\ ObserverCallback(<<[id |-> UnknownId, isIntersecting |-> b]>>)) =>
              /\ inView' = inView
              /\ inViewDirty' = inViewDirty
              /\ renderPending' = renderPending
              /\ effects' = effects]_vars

\* An unknown event has just been dropped while a flag is up and nothing is pending.
C2_Witness ==
    /\ lastEvent = "unknown"
    /\ inView["skills"] = TRUE
    /\ ~renderPending
    /\ ~inViewDirty

\* C3: SectionVisibility always has exactly the six known keys, each mapped to a
\* boolean; right after mount all six flags are false.
C3_SixKeys ==
    /\ DOMAIN inView = Ids
    /\ \A s \in Ids : inView[s] \in BOOLEAN
    /\ lastEvent \in {"load", "mount"} => \A s \in Ids : inView[s] = FALSE

\* Unknown and known events, a re-render and a menu toggle have all happened.
C3_Witness ==
    /\ lastEvent = "unknown"
    /\ obsCreated >= 2
    /\ isMobileMenuOpen
    /\ inView["projects"] = TRUE

\* C4 (as claimed): between mount and unmount one observation context is created
\* and each region is observed once, whatever re-renders happen in between.
C4_RegisteredOnce == mounted => obsCreated <= 1

\* C5: every observation context is disconnected before a replacement is created
\* and at unmount: at most one context is live, its regions are observed only
\* while it is live, and after unmount no context is live and nothing is observed.
C5_OneLiveObserver ==
    /\ liveObs <= 1
    /\ observed # {} => liveObs = 1
    /\ ~mounted => (liveObs = 0 /\ observed = {})
    /\ (mounted /\ effects # "mount") => liveObs = 1

\* The effect has re-run at least once and the page has then been unmounted.
C5_Witness ==
    /\ ~mounted
    /\ lastEvent = "unmount"
    /\ obsCreated >= 2

\* C6: while the scene exists the camera aspect is the quotient of the surface
\* width and height, and once every queued resize event has been processed the
\* surface is (W, 0.4*H) and the aspect W/(0.4*H) for the current viewport (W, H).
C6_SizeFollowsViewport ==
    sceneActive =>
        /\ aspect[1] * size[2] = aspect[2] * size[1]
        /\ ~resizePending =>
              /\ size[1] = viewport[1]
              /\ HeightDen * size[2] = HeightNum * viewport[2]
              /\ aspect[1] * HeightNum * viewport[2] = aspect[2] * HeightDen * viewport[1]

\* A resize to another viewport has been processed by the handler of a live scene.
C6_Witness ==
    /\ sceneActive
    /\ lastEvent = "resize"
    /\ viewport # InitialViewport
    /\ size = <<800, 200>>

\* C7 (as claimed): after N frame ticks the angles are N*r_x and N*r_y.
C7_AnglesAfterTicks ==
    sceneActive => rotation = <<ticks * RotIncX, ticks * RotIncY>>

\* C7 (amended): after N frame ticks the angles are (N+1)*r_x and (N+1)*r_y, the
\* setup having run animate once itself; r_y > r_x; since only a frame tick
\* advances the tick count, no other event changes the angles.
C7_AnglesAfterAnimateCalls ==
    /\ RotIncY > RotIncX
    /\ sceneActive => rotation = <<(ticks + 1) * RotIncX, (ticks + 1) * RotIncY>>
    /\ sceneActive => draws = ticks + 1

\* Two frame ticks have run on a live scene.
C7_Witness ==
    /\ sceneActive
    /\ lastEvent = "frame"
    /\ ticks >= 2

\* C8: whenever the page is unmounted there is no pending frame callback, no
\* render surface attached to the header, no resize listener and no undisposed
\* GPU resource; and no step taken while unmounted changes the scene.
C8_NothingLeftAfterUnmount ==
    [][/\ ~mounted' => /\ pendingFrames' = {}
                       /\ canvasAttached' = 0
                       /\ resizeListeners' = 0
                       /\ gpuLive' = {}
       /\ (~mounted /\ ~mounted') =>
              UNCHANGED <<rotation, size, aspect, ticks, draws, drawn>>]_vars

\* A scene that ticked has been unmounted and a resize event has arrived since.
C8_Witness ==
    /\ ~mounted
    /\ lastEvent = "resize"
    /\ "cancel" \in released
    /\ ticks >= 1

\* C9 (as claimed): every unmount performs all the release steps, also when the
\* render surface was never attached.
C9_AllStepsOnUnmount ==
    lastEvent = "unmount" => released = ReleaseSteps

\* C9 (amended): the unmount of a scene that was set up performs every release
\* step; when the setup was skipped for want of the header, the unmount performs
\* none, and nothing had been created.
C9_StepsWhenSetUp ==
    lastEvent = "unmount" =>
        /\ released = (IF headerAvail THEN ReleaseSteps ELSE {})
        /\ gpuLive = {}
        /\ canvasAttached = 0
        /\ pendingFrames = {}
        /\ resizeListeners = 0

\* A scene that was set up and ticked has just been unmounted.
C9_Witness ==
    /\ lastEvent = "unmount"
    /\ headerAvail
    /\ released = ReleaseSteps
    /\ ticks >= 1

\* C10 (as claimed): after a scroll event the control is present exactly when
\* the position is at or above 300.
C10_PresentAtThreshold ==
    (lastEvent = "scroll" /\ scrollListeners > 0) =>
        (showBackToTop <=> scrollY >= ScrollThreshold)

\* C10 (amended): after a scroll event the control is wanted exactly when the
\* position is above 300 (absent at 300, present at 301), and each re-render
\* puts exactly the wanted state on the page.
C10_PresentPastThreshold ==
    /\ (lastEvent = "scroll" /\ scrollListeners > 0) =>
           (showBackToTop <=> scrollY > ScrollThreshold)
    /\ lastEvent = "render" => backToTopShown = showBackToTop

\* The page shows the control and has just been scrolled back to exactly 300.
C10_Witness ==
    /\ lastEvent = "scroll"
    /\ scrollY = ScrollThreshold
    /\ backToTopShown
    /\ ~showBackToTop

\* C11: with the header's surface unavailable at mount the scene setup is skipped
\* (no scene, no pending frame, no resize listener, no canvas, no GPU resource)
\* and no scene cleanup runs at unmount, while the observer and the scroll
\* handler are registered and work as usual; a region whose ref is not set is
\* skipped and every other region is observed.
C11_DegradesSilently ==
    /\ (mounted /\ effects # "mount") =>
           /\ liveObs = 1
           /\ observed = attached
           /\ scrollListeners = 1
           /\ ~headerAvail =>
                  /\ ~sceneActive
                  /\ pendingFrames = {}
                  /\ animationFrameId = 0
                  /\ resizeListeners = 0
                  /\ canvasAttached = 0
                  /\ gpuLive = {}
    /\ ~headerAvail => released = {}
    /\ (lastEvent = "scroll" /\ scrollListeners > 0) =>
           (showBackToTop <=> scrollY > ScrollThreshold)
    /\ lastEvent = "intersect" => (renderPending /\ inViewDirty)

\* Mounted without header and without one region: a region declared after the
\* missing one has reported an intersection and the scroll handler has acted.
C11_Witness ==
    /\ mounted
    /\ ~headerAvail
    /\ attached = Ids \ {"projects"}
    /\ lastEvent = "intersect"
    /\ inView["education"] = TRUE
    /\ showBackToTop

\* The tracker has nothing left to do: no re-render or effect is scheduled and no
\* notification is owed.
TrackerQuiet == ~renderPending /\ effects = "none" /\ ~notifyPending

\* C12 (as claimed): with the page left alone after mount the tracker eventually
\* stays quiet: no observer is created or disconnected and inView is not
\* rewritten any more.
C12_EventuallyQuiet == <>[](mounted => TrackerQuiet)

\* C13: every redraw uses the surface size and camera aspect set by the resize
\* handler that ran last (or by the setup); so a redraw is stale with respect to
\* the window only while a resize event is still queued, and the first frame tick
\* after the handler draws with the new size and aspect.
C13_NoStaleDrawAfterResize ==
    (sceneActive /\ lastEvent = "frame") =>
        /\ drawn.size = size
        /\ drawn.aspect = aspect
        /\ ~resizePending =>
              /\ drawn.size[1] = viewport[1]
              /\ HeightDen * drawn.size[2] = HeightNum * viewport[2]
              /\ drawn.aspect[1] * HeightNum * viewport[2]
                     = drawn.aspect[2] * HeightDen * viewport[1]

\* A frame tick has drawn after the window went to 800x500 and the handler ran.
C13_Witness ==
    /\ sceneActive
    /\ lastEvent = "frame"
    /\ ~resizePending
    /\ viewport = <<800, 500>>
    /\ drawn.size = <<800, 200>>
    /\ ticks >= 2

\* C14: the k-th redraw of a scene shows the angles after k increments (k times
\* the per-tick increment on each axis), which are the angles the cube has at
\* that moment, never those after k-1 increments; and when a redraw happens the
\* next tick has already been requested under the stored handle.
C14_RedrawShowsIncrements ==
    sceneActive =>
        /\ drawn.rot = <<draws * RotIncX, draws * RotIncY>>
        /\ drawn.rot = rotation
        /\ animationFrameId \in pendingFrames

\* The third redraw of a scene has just been made by a frame tick.
C14_Witness ==
    /\ sceneActive
    /\ lastEvent = "frame"
    /\ draws = 3
    /\ drawn.rot = <<3 * RotIncX, 3 * RotIncY>>

\* C15: while a scene is mounted exactly one frame callback is pending, so the
\* per-frame update never stops on its own; with a fair browser every tick below
\* the modelled tick bound is followed by a further tick unless the page is
\* unmounted first, and a queued resize event is always eventually processed.
C15_LoopNeverStops ==
    /\ [](sceneActive => Cardinality(pendingFrames) = 1)
    /\ \A n \in 0..(MaxTicks - 1) :
           (sceneActive /\ ticks = n) ~> (~sceneActive \/ ticks = n + 1)
    /\ resizePending ~> ~resizePending

\* The scene has reached the last modelled tick with a resize processed on the way.
C15_Witness ==
    /\ sceneActive
    /\ lastEvent = "frame"
    /\ ticks = MaxTicks
    /\ Cardinality(pendingFrames) = 1
    /\ size = <<1200, 200>>

\* C16: an intersection event, a scroll event, a menu toggle, the re-render and
\* the effect re-run they cause leave the scene as it is (angles, surface size,
\* camera aspect, pending frame callback, render surface), and the scene is set
\* up only by the effects of a mount, so at most one render surface is attached;
\* a frame tick or a resize event leaves SectionVisibility as it is.
C16_Independent ==
    [][/\ lastEvent' \in {"intersect", "unknown", "scroll", "menu", "render", "update"} =>
              UNCHANGED <<sceneActive, rotation, size, aspect, pendingFrames,
                          animationFrameId, canvasAttached, draws, drawn>>
       /\ (sceneActive' /\ ~sceneActive) => lastEvent' = "effects"
       /\ canvasAttached' <= 1
       /\ lastEvent' \in {"frame", "resize"} => UNCHANGED <<inView, inViewDirty>>]_vars

\* A frame tick has run on a page whose menu is open, whose control is shown and
\* whose observer effect has re-run after an intersection event.
C16_Witness ==
    /\ sceneActive
    /\ lastEvent = "frame"
    /\ isMobileMenuOpen
    /\ showBackToTop
    /\ inView["summary"] = TRUE
    /\ obsCreated >= 2
    /\ canvasAttached = 1
    /\ draws = ticks + 1

\* C17: while a scene is mounted exactly the callback named by the stored
\* animation-frame identifier is pending, and no other; so the cancel of the
\* cleanup removes the callback that would have fired next, and once the scene
\* is gone nothing is pending.
C17_HandleNamesPending ==
    /\ sceneActive => (animationFrameId # 0 /\ pendingFrames = {animationFrameId})
    /\ ~sceneActive => pendingFrames = {}
    /\ (lastEvent = "unmount" /\ headerAvail) => "cancel" \in released

\* The page has been unmounted between the second and the third tick, after the
\* handle had been replaced twice, and the cancel left nothing pending.
C17_Witness ==
    /\ lastEvent = "unmount"
    /\ headerAvail
    /\ ticks = 2
    /\ "cancel" \in released
    /\ pendingFrames = {}

\* C18: a batch of several entries leaves every known section that occurs in it
\* with the state reported by its last entry in delivery order, whatever other
\* sections the batch names, and leaves every section that does not occur in it
\* as it was.
C18_BatchInOrder ==
    [][\A es \in OrderedBatches :
          (lastEvent' = "intersect" /\ ObserverCallback(es)) =>
              \A s \in Ids :
                  LET idx == {i \in 1..Len(es) : es[i].id = s}
                  IN inView'[s] = IF idx = {} THEN inView[s]
                                  ELSE es[CHOOSE i \in idx : \A j \in idx : j <= i].isIntersecting]_vars

\* Both regions are up after batches: reachable from the state with only one of
\* them up by a batch that names both, or names one of them twice.
C18_Witness ==
    /\ lastEvent = "intersect"
    /\ inView["summary"] = TRUE
    /\ inView["skills"] = TRUE
    /\ inView["experience"] = FALSE
    /\ renderPending

====
